---- MODULE Spec2Model ----
(***************************************************************************)
(* A model of src/bot.py (LinkedInEasyApplyBot): the session loop (run,    *)
(* process_job_listings), one attempt (apply_to_job, _submit_application), *)
(* the answer resolver (_get_answer, _store_new_question) and the two      *)
(* persisted stores (the history file output_file and the knowledge file   *)
(* qa_file).                                                               *)
(*                                                                         *)
(* Text is modelled at the granularity the code inspects it: a CSV cell is *)
(* a string, a question is a sequence of tokens (each token one of the     *)
(* phrases the code searches for, or a filler word), a page title is a     *)
(* string whose split on " | " and whose words are tabulated.              *)
(* Time is counted in days.                                                *)
(***************************************************************************)
EXTENDS Integers, Sequences, FiniteSets, TLC

\* ------------------------------------------------------------------ bounds

\* The largest max_applications a session is configured with.
MaxCap == 2
\* The number of job cards the site serves in one session, over all pages.
MaxCards == 2
\* The last day the clock reaches.
MaxDay == 3
\* The number of records the store specification appends.
MaxRecords == 3
\* The number of tokens of a form section's text.
MaxQLen == 2
\* The number of records in the knowledge store beyond which no section is resolved.
MaxStore == 2

\* --------------------------------------------------------------- constants

\* _submit_application: max_attempts = 5
max_attempts == 5
\* _load_applied_jobs: timedelta(days=2)
RecencyDays == 2
\* run: range(1, 4) after the first page, so pages 0..3
LastPage == 3

\* -------------------------------------------------------------------- text

\* s.lower() on one token.
LowerTok(t) ==
    CASE t = "Years of experience" -> "years of experience"
      [] t = "Sponsor" -> "sponsor"
      [] t = "Are you " -> "are you "
      [] t = "Favorite IDE" -> "favorite ide"
      [] t = "Senior" -> "senior"
      [] t = "Lead" -> "lead"
      [] t = "LEAD" -> "lead"
      [] t = "Dev" -> "dev"
      [] OTHER -> t

\* s.lower()
Lower(s) == [i \in DOMAIN s |-> LowerTok(s[i])]

\* needle in hay (Python substring test; the empty string is in every string)
Contains(needle, hay) ==
    \E i \in 1..(Len(hay) + 1) :
        /\ i + Len(needle) - 1 <= Len(hay)
        /\ \A k \in 1..Len(needle) : hay[i + k - 1] = needle[k]

\* datetime.strftime('%Y-%m-%d %H:%M:%S') of day t (0-based)
TsText ==
    << "2024-01-01 00:00:00", "2024-01-02 00:00:00", "2024-01-03 00:00:00",
       "2024-01-04 00:00:00", "2024-01-05 00:00:00", "2024-01-06 00:00:00",
       "2024-01-07 00:00:00", "2024-01-08 00:00:00" >>

StrfTime(t) == TsText[t + 1]

\* pd.to_datetime(cell, format="%Y-%m-%d %H:%M:%S") succeeds on the cell
IsTs(cell) == \E i \in DOMAIN TsText : TsText[i] = cell

\* the day pd.to_datetime reads from a cell that IsTs
ParseTs(cell) == (CHOOSE i \in DOMAIN TsText : TsText[i] = cell) - 1

\* str(bool) as csv.DictWriter writes it
BoolText(b) == IF b THEN "True" ELSE "False"

\* page_title.split(' | ') for the page titles the browser shows
SplitTitle(t) ==
    CASE t = "Dev | Acme" -> << "Dev", "Acme" >>
      [] t = "Senior Dev | Acme" -> << "Senior Dev", "Acme" >>
      [] t = "LEAD Dev | CompanyA" -> << "LEAD Dev", "CompanyA" >>
      [] OTHER -> << t >>

\* the words of a job title
Words(t) ==
    CASE t = "Dev" -> << "Dev" >>
      [] t = "Senior Dev" -> << "Senior", "Dev" >>
      [] t = "LEAD Dev" -> << "LEAD", "Dev" >>
      [] OTHER -> << t >>

\* ----------------------------------------------------------- history store

NoFile == [exists |-> FALSE, rows |-> << >>]

\* csv.DictWriter(f, fieldnames=data.keys()).writeheader()
HistoryHeader ==
    << "timestamp", "job_id", "job_title", "company", "attempted", "result", "url" >>

\* _load_applied_jobs: names=[...] given to pd.read_csv
LoadNames == << "timestamp", "job_id", "job", "company", "attempted", "result" >>

\* _record_application: the data dict of one attempt, as the row DictWriter writes
RecordRow(t, job_id, page_title, attempted, result, url) ==
    LET parts == SplitTitle(page_title)
        job_title == IF Len(parts) > 1 THEN parts[1] ELSE "Unknown"
        company == IF Len(parts) > 1 THEN parts[2] ELSE "Unknown"
    IN  << StrfTime(t), job_id, job_title, company, BoolText(attempted), result, url >>

\* _record_application with open(output_file, 'w') for 'a': the file is
\* written anew by every call
record_application_truncating(file, io_ok, row) ==
    IF ~io_ok THEN file
    ELSE [exists |-> TRUE, rows |-> << HistoryHeader, row >>]

\* _record_application: open(output_file, 'a'), header when the file did not
\* exist, then the row; an OSError (io_ok = FALSE) is caught and logged.
record_application(file, io_ok, row) ==
    IF ~io_ok THEN file
    ELSE [exists |-> TRUE,
          rows |-> (IF file.exists THEN file.rows ELSE << HistoryHeader >>) \o << row >>]

\* pd.read_csv(header=None, names=LoadNames): every line is a data row (the
\* header line too); a line with more cells than names gives its leading
\* cells to the index, and the names label the last Len(LoadNames) cells.
ReadCsvRow(line) ==
    LET k == Len(line) - Len(LoadNames)
    IN  [timestamp |-> line[k + 1], job_id |-> line[k + 2], job |-> line[k + 3],
         company |-> line[k + 4], attempted |-> line[k + 5], result |-> line[k + 6]]

ReadCsv(rows) == [i \in DOMAIN rows |-> ReadCsvRow(rows[i])]

\* list(df.job_id.unique()): first occurrences, in order
RECURSIVE Unique(_)
Unique(s) ==
    IF s = << >> THEN << >>
    ELSE LET init == Unique(SubSeq(s, 1, Len(s) - 1))
             x == s[Len(s)]
         IN  IF \E i \in DOMAIN init : init[i] = x THEN init ELSE Append(init, x)

\* df[df['timestamp'] > now - timedelta(days=2)].job_id
RECURSIVE RecentIds(_, _)
RecentIds(table, t) ==
    IF table = << >> THEN << >>
    ELSE LET r == Head(table)
             rest == RecentIds(Tail(table), t)
         IN  IF ParseTs(r.timestamp) > t - RecencyDays THEN << r.job_id >> \o rest ELSE rest

\* _load_applied_jobs with the try/except left out: the exception leaves it
load_applied_jobs_unguarded(file, io_ok, t) ==
    IF \/ ~file.exists
       \/ ~io_ok
       \/ file.rows = << >>
       \/ \E i \in DOMAIN file.rows : Len(file.rows[i]) < Len(LoadNames)
    THEN [ids |-> << >>, warned |-> FALSE, raised |-> TRUE]
    ELSE LET table == ReadCsv(file.rows)
         IN  IF \E i \in DOMAIN table : ~IsTs(table[i].timestamp)
             THEN [ids |-> << >>, warned |-> FALSE, raised |-> TRUE]
             ELSE [ids |-> Unique(RecentIds(table, t)), warned |-> FALSE, raised |-> FALSE]

\* _load_applied_jobs at time t. io_ok = FALSE: the file cannot be read.
\* Any exception (missing, unreadable or empty file, a line too short, a
\* 'timestamp' cell that is no timestamp) is caught: a warning and [].
load_applied_jobs(file, io_ok, t) ==
    IF \/ ~file.exists
       \/ ~io_ok
       \/ file.rows = << >>
       \/ \E i \in DOMAIN file.rows : Len(file.rows[i]) < Len(LoadNames)
    THEN [ids |-> << >>, warned |-> TRUE, raised |-> FALSE]
    ELSE LET table == ReadCsv(file.rows)
         IN  IF \E i \in DOMAIN table : ~IsTs(table[i].timestamp)
             THEN [ids |-> << >>, warned |-> TRUE, raised |-> FALSE]
             ELSE [ids |-> Unique(RecentIds(table, t)), warned |-> FALSE, raised |-> FALSE]

\* --------------------------------------------------------- knowledge store

\* csv.writer(f).writerow(["Question", "Answer"])
QAHeader == << "Question", "Answer" >>

\* A key of self.answers: a question text, or the float NaN that pd.read_csv
\* gives for an empty Question cell.
TextKey(text) == [nan |-> FALSE, text |-> text]
NaNKey == [nan |-> TRUE, text |-> << >>]

\* d[key] = value on an insertion-ordered dict: an existing key keeps its place
DictSet(d, key, value) ==
    IF \E i \in DOMAIN d : d[i].q = key
    THEN [i \in DOMAIN d |-> IF d[i].q = key THEN [q |-> key, a |-> value] ELSE d[i]]
    ELSE Append(d, [q |-> key, a |-> value])

\* dict(zip(df['Question'], df['Answer'])) over the data rows of the file
RECURSIVE ZipRows(_)
ZipRows(rows) ==
    IF rows = << >> THEN << >>
    ELSE LET r == rows[Len(rows)]
             key == IF r[1] = << >> THEN NaNKey ELSE TextKey(r[1])
         IN  DictSet(ZipRows(SubSeq(rows, 1, Len(rows) - 1)), key, r[2])

\* _load_qa_data. A missing file gives {} silently; an unreadable or empty
\* file, or one without the Question and Answer columns, raises inside the
\* try: a warning and {}.
load_qa_data(file, io_ok) ==
    IF ~file.exists
    THEN [answers |-> << >>, warned |-> FALSE, raised |-> FALSE]
    ELSE IF ~io_ok \/ file.rows = << >> \/ file.rows[1] # QAHeader
    THEN [answers |-> << >>, warned |-> TRUE, raised |-> FALSE]
    ELSE [answers |-> ZipRows(Tail(file.rows)), warned |-> FALSE, raised |-> FALSE]

\* _store_new_question: the file part. Header when the file is missing, then
\* the row; an OSError (io_ok = FALSE) is caught and logged.
write_question(file, io_ok, question, answer) ==
    IF ~io_ok THEN file
    ELSE [exists |-> TRUE,
          rows |-> (IF file.exists THEN file.rows ELSE << QAHeader >>)
                       \o << << question, answer >> >>]

\* ---------------------------------------------------------- answer resolver

\* tok in question
Has(tok, question) == Contains(<< tok >>, question)

\* f"{self.salary} {self.rate}"
SalaryText(salary, rate) == salary \o " " \o rate

\* _get_answer, lines 434-436: the scan of self.answers in insertion order.
\* q.lower() raises AttributeError on a NaN key.
RECURSIVE ScanStore(_, _)
ScanStore(d, question) ==
    IF d = << >> THEN [kind |-> "miss", a |-> ""]
    ELSE IF Head(d).q.nan THEN [kind |-> "raise", a |-> ""]
    ELSE IF Contains(Lower(Head(d).q.text), question) THEN [kind |-> "hit", a |-> Head(d).a]
    ELSE ScanStore(Tail(d), question)

\* _get_answer, lines 439-456: the rule chain. found = FALSE: no rule matches.
HeuristicAnswer(question, salary, rate) ==
    IF Has("how many years", question) \/ Has("years of experience", question)
    THEN [found |-> TRUE, a |-> "3"]
    ELSE IF Has("sponsor", question) \/ Has("visa", question)
    THEN [found |-> TRUE, a |-> "No"]
    ELSE IF \E x \in { "do you ", "have you ", "are you ", "can you " } : Has(x, question)
    THEN [found |-> TRUE, a |-> "Yes"]
    ELSE IF Has("us citizen", question) \/ Has("authorized", question)
            \/ Has("legal right", question)
    THEN [found |-> TRUE, a |-> "Yes"]
    ELSE IF Has("salary", question) \/ Has("compensation", question)
    THEN [found |-> TRUE,
          a |-> IF salary # "" /\ rate # "" THEN SalaryText(salary, rate) ELSE "Negotiable"]
    ELSE IF \E x \in { "gender", "race", "lgbtq", "ethnicity", "nationality" } :
                Has(x, question)
    THEN [found |-> TRUE, a |-> "Prefer not to say"]
    ELSE IF Has("education", question) \/ Has("degree", question)
    THEN [found |-> TRUE, a |-> "Bachelor's degree"]
    ELSE IF Has("when can you start", question) \/ Has("start date", question)
    THEN [found |-> TRUE, a |-> "Immediately"]
    ELSE IF Has("willing to relocate", question)
    THEN [found |-> TRUE, a |-> "Yes"]
    ELSE [found |-> FALSE, a |-> ""]

\* _get_answer with _store_new_question: what it returns (kind "answer" with
\* a, "none" for None, "raise"), where the answer came from (via), and the
\* store and the knowledge file it leaves.
\* _get_answer with the rule chain of lines 439-456 before the loop over the
\* store of lines 434-436
get_answer_rules_first(d, file, question, salary, rate, io_ok) ==
    LET scan == ScanStore(d, question)
        rule == HeuristicAnswer(question, salary, rate)
    IN  IF rule.found
        THEN [kind |-> "answer", a |-> rule.a, via |-> "rule", answers |-> d, qa_file |-> file]
        ELSE IF scan.kind = "raise"
        THEN [kind |-> "raise", a |-> "", via |-> "store", answers |-> d, qa_file |-> file]
        ELSE IF scan.kind = "hit"
        THEN [kind |-> "answer", a |-> scan.a, via |-> "store", answers |-> d, qa_file |-> file]
        ELSE [kind |-> "none", a |-> "", via |-> "new",
              answers |-> DictSet(d, TextKey(question), "Yes"),
              qa_file |-> write_question(file, io_ok, question, "Yes")]

get_answer(d, file, question, salary, rate, io_ok) ==
    LET scan == ScanStore(d, question)
        rule == HeuristicAnswer(question, salary, rate)
    IN  IF scan.kind = "raise"
        THEN [kind |-> "raise", a |-> "", via |-> "store", answers |-> d, qa_file |-> file]
        ELSE IF scan.kind = "hit"
        THEN [kind |-> "answer", a |-> scan.a, via |-> "store", answers |-> d, qa_file |-> file]
        ELSE IF rule.found
        THEN [kind |-> "answer", a |-> rule.a, via |-> "rule", answers |-> d, qa_file |-> file]
        ELSE [kind |-> "none", a |-> "", via |-> "new",
              answers |-> DictSet(d, TextKey(question), "Yes"),
              qa_file |-> write_question(file, io_ok, question, "Yes")]

\* _process_questions, one form section (lines 391-429): the lowercased text
\* is resolved; an exception of _get_answer is caught (line 428) and a None
\* or empty answer skips the section. entered: what is put into the field.
process_section(d, file, text, salary, rate, io_ok) ==
    LET r == get_answer(d, file, Lower(text), salary, rate, io_ok)
    IN  [answers |-> r.answers, qa_file |-> r.qa_file,
         entered |-> IF r.kind = "answer" THEN r.a ELSE "",
         result |-> r]

\* _process_questions over the sections that find_elements returned. new:
\* the questions _store_new_question was called with.
RECURSIVE process_questions(_, _, _, _, _, _)
process_questions(d, file, sections, salary, rate, io_ok) ==
    IF sections = << >> THEN [answers |-> d, qa_file |-> file, new |-> {}]
    ELSE LET one == process_section(d, file, Head(sections), salary, rate, io_ok)
             rest == process_questions(one.answers, one.qa_file, Tail(sections),
                                       salary, rate, io_ok)
         IN  [answers |-> rest.answers, qa_file |-> rest.qa_file,
              new |-> rest.new \cup (IF one.result.via = "new"
                                     THEN { Lower(Head(sections)) } ELSE {})]

\* ------------------------------------------------------------------- state

VARIABLES
    pc,                 \* the position of the program
    now,                \* the clock, in days
    output_file,        \* the history file (self.output_file)
    appended,           \* store specification: the data dicts written, in order
    applied_job_ids,    \* self.applied_job_ids
    warned,             \* the stores whose load logged a warning
    unreadable,         \* the stores whose file could not be read at load
    loaded,             \* the number of records _load_qa_data gave self.answers
    qa_file,            \* the knowledge file (self.qa_file, "qa.csv")
    answers,            \* self.answers, in insertion order
    salary,             \* self.salary ("" when not configured)
    rate,               \* self.rate ("" when not configured)
    last,               \* the last resolution of a question: its input and outcome
    max_applications,   \* self.max_applications
    application_count,  \* self.application_count
    pos, loc, page,     \* run: the position, location and page of the next search
    served,             \* the number of job cards the site has served
    pending,            \* process_job_listings: the items of job_ids not yet visited
    job_id,             \* apply_to_job: its job_id argument
    page_title,         \* driver.title of the job page
    attempts,           \* _submit_application: attempts
    offered,            \* a submit, next, review or upload control was found in this call
    submit_result,      \* what _submit_application did: "True", "False" or "raise"
    ret,                \* what apply_to_job did: "True", "False", "timeout" or "error"
    attempt_rows,       \* the rows this call of apply_to_job wrote to the history file
    skipped,            \* the job id process_job_listings last passed over as already applied
    job_cards,          \* process_job_listings: the cards of the page, until the first job_id is visited
    failed_writes,      \* the files a write of this call of apply_to_job failed on (logged)
    trace               \* what the last pass of _submit_application found and did, when recorded

storeVars == << output_file, appended >>
loadVars == << applied_job_ids, warned, unreadable, loaded >>
knowVars == << qa_file, answers, last >>
cfgVars == << now, salary, rate, max_applications >>
runVars == << application_count, pos, loc, page, served, pending, skipped, job_cards >>
applyVars == << job_id, page_title, attempts, offered, submit_result, ret, attempt_rows,
               failed_writes, trace >>

vars == << pc, storeVars, loadVars, knowVars, cfgVars, runVars, applyVars >>

\* no question resolved yet
NoResolution ==
    [op |-> "none", question |-> << >>, kind |-> "none", a |-> "", via |-> "none",
     entered |-> "", before |-> << >>, file_before |-> NoFile]

\* the record of a pass of _submit_application before the first pass. on: the
\* passes are recorded. pass: attempts after the pass. found: the controls
\* whose find_elements returned an element. did: the controls that were used
\* (clicked, given a file, re-answered). done: those whose use did not raise.
\* was_filled, filled: the fields of the form step on display were filled by
\* _fill_application_form or _process_questions, before and after the pass.
StartTrace(on) ==
    [on |-> on, pass |-> 0, found |-> {}, did |-> {}, done |-> {},
     was_filled |-> FALSE, filled |-> FALSE]

\* the locals of apply_to_job and _submit_application outside a call
NoAttempt ==
    /\ job_id = ""
    /\ page_title = ""
    /\ attempts = 0
    /\ offered = FALSE
    /\ submit_result = ""
    /\ ret = ""
    /\ attempt_rows = << >>
    /\ failed_writes = {}

\* a call returns: its locals are gone
ResetAttempt ==
    /\ job_id' = ""
    /\ page_title' = ""
    /\ attempts' = 0
    /\ offered' = FALSE
    /\ submit_result' = ""
    /\ ret' = ""
    /\ attempt_rows' = << >>
    /\ failed_writes' = {}
    /\ trace' = StartTrace(trace.on)

\* the fields and locals before anything has run
Defaults ==
    /\ appended = << >>
    /\ applied_job_ids = << >>
    /\ warned = {}
    /\ unreadable = {}
    /\ loaded = 0
    /\ answers = << >>
    /\ last = NoResolution
    /\ application_count = 0
    /\ pos = 1 /\ loc = 1 /\ page = 0
    /\ served = 0
    /\ pending = << >>
    /\ NoAttempt
    /\ trace = StartTrace(FALSE)
    /\ skipped = ""
    /\ job_cards = << >>

\* ------------------------------------------------------- the browser's pages

\* data-job-id of the job cards the site serves
JobIds == { "j1", "j2" }

\* driver.title of a job page
PageTitles == { "Dev | Acme", "Senior Dev | Acme", "Dev" }

\* driver.current_url after driver.get(f".../jobs/view/{job_id}")
UrlOf(j) == IF j = "j1" THEN "https://www.linkedin.com/jobs/view/j1"
            ELSE "https://www.linkedin.com/jobs/view/j2"

\* ------------------------------------------- the history store on its own

\* the (attempted, result) pairs apply_to_job records
Outcomes ==
    { << TRUE, "Applied" >>, << FALSE, "No Easy Apply" >> }

\* _record_application: the data dict
RecordData(t, j, title, attempted, result, url) ==
    LET row == RecordRow(t, j, title, attempted, result, url)
    IN  [timestamp |-> row[1], job_id |-> row[2], job_title |-> row[3],
         company |-> row[4], attempted |-> row[5], result |-> row[6], url |-> row[7]]

StoreInit ==
    /\ pc = "store"
    /\ now = 0
    /\ output_file = NoFile
    /\ qa_file = NoFile
    /\ salary = "" /\ rate = ""
    /\ max_applications = 0
    /\ Defaults

\* one call of _record_application
StoreRecord ==
    /\ pc = "store"
    /\ Len(appended) < MaxRecords
    /\ \E j \in JobIds, title \in PageTitles, o \in Outcomes, io_ok \in BOOLEAN :
          /\ output_file' = record_application(output_file, io_ok,
                                RecordRow(now, j, title, o[1], o[2], UrlOf(j)))
          /\ appended' = IF io_ok
                         THEN Append(appended, RecordData(now, j, title, o[1], o[2], UrlOf(j)))
                         ELSE appended
    /\ UNCHANGED << pc, loadVars, knowVars, cfgVars, runVars, applyVars >>

\* a day passes
StoreTick ==
    /\ pc = "store"
    /\ now < MaxDay
    /\ now' = now + 1
    /\ UNCHANGED << pc, storeVars, loadVars, knowVars, salary, rate, max_applications,
                    runVars, applyVars >>

\* the next session starts: __init__ calls _load_applied_jobs
StoreLoad ==
    /\ pc = "store"
    /\ \E io_ok \in BOOLEAN :
          LET r == load_applied_jobs(output_file, io_ok, now)
          IN  /\ applied_job_ids' = r.ids
              /\ warned' = IF r.warned THEN { "history" } ELSE {}
              /\ unreadable' = IF io_ok THEN {} ELSE { "history" }
              /\ UNCHANGED loaded
              /\ pc' = IF r.raised THEN "store_raised"
                       ELSE IF io_ok THEN "store_loaded" ELSE "store_unreadable"
    /\ UNCHANGED << storeVars, knowVars, cfgVars, runVars, applyVars >>

StoreNext == StoreRecord \/ StoreTick \/ StoreLoad

SpecStore == StoreInit /\ [][StoreNext]_vars

\* the set of elements of a sequence
ToSet(s) == { s[i] : i \in DOMAIN s }

\* C6: a job id recorded less than RecencyDays days before the next session
\* starts is in the recently-applied set that session loads from the file.
C6_RecentRecordIsLoaded ==
    pc = "store_loaded" =>
        \A i \in DOMAIN appended :
            ParseTs(appended[i].timestamp) > now - RecencyDays
                => appended[i].job_id \in ToSet(applied_job_ids)

\* C7: appending N records to an absent history file and loading it yields
\* exactly N records, with the field values that were appended.
C7_RoundTrip ==
    pc = "store_loaded" =>
        LET table == ReadCsv(output_file.rows)
        IN  /\ Len(table) = Len(appended)
            /\ \A i \in DOMAIN table :
                  /\ table[i].timestamp = appended[i].timestamp
                  /\ table[i].job_id = appended[i].job_id
                  /\ table[i].job = appended[i].job_title
                  /\ table[i].company = appended[i].company
                  /\ table[i].attempted = appended[i].attempted
                  /\ table[i].result = appended[i].result

\* -------------------------------------------------------------- __init__

\* __init__, lines 100-104: the two loads. An exception of a load would leave
\* the constructor (pc "ctor_raised"); application_count starts at 0.
Construct ==
    /\ pc = "new"
    /\ \E h_ok \in BOOLEAN, q_ok \in BOOLEAN :
          LET h == load_applied_jobs(output_file, h_ok, now)
              q == load_qa_data(qa_file, q_ok)
          IN  /\ unreadable' = (IF h_ok THEN {} ELSE { "history" })
                                  \cup (IF q_ok THEN {} ELSE { "qa" })
              /\ IF h.raised \/ q.raised
                 THEN /\ pc' = "ctor_raised"
                      /\ UNCHANGED << applied_job_ids, warned, answers, loaded >>
                 ELSE /\ pc' = "ready"
                      /\ applied_job_ids' = h.ids
                      /\ answers' = q.answers
                      /\ loaded' = Len(q.answers)
                      /\ warned' = (IF h.warned THEN { "history" } ELSE {})
                                      \cup (IF q.warned THEN { "qa" } ELSE {})
    /\ application_count' = 0
    /\ UNCHANGED << storeVars, qa_file, last, cfgVars, pos, loc, page, served,
                    pending, skipped, job_cards, applyVars >>

\* the rows a user or the bot has put into the knowledge file: an answer the
\* user supplied, the placeholder of an unresolved question, and the
\* placeholder of a form section without text
KnowledgeRows ==
    { << << "Years of experience" >>, "5" >>,
      << << "sponsor" >>, "Yes" >>,
      << << "favorite ide" >>, "Yes" >>,
      << << >>, "Yes" >> }

\* the knowledge files a session starts with
KnowledgeFiles ==
    { NoFile } \cup
    { [exists |-> TRUE, rows |-> << QAHeader >> \o body] :
        body \in UNION { [1..n -> KnowledgeRows] : n \in 0..2 } }

\* the history files a session starts with: none, or what one earlier call of
\* _record_application left
HistoryFiles ==
    { NoFile } \cup
    { record_application(NoFile, TRUE, RecordRow(0, j, title, o[1], o[2], UrlOf(j))) :
        j \in JobIds, title \in PageTitles, o \in Outcomes }

\* the constructor on its own, over the files it can find
InitInit ==
    /\ pc = "new"
    /\ now \in 0..MaxDay
    /\ output_file \in HistoryFiles
    /\ qa_file \in KnowledgeFiles
    /\ salary = "" /\ rate = ""
    /\ max_applications = 0
    /\ Defaults

SpecInit == InitInit /\ [][Construct]_vars

\* C8 (as amended): neither load raises. A missing or unreadable history file
\* gives an empty applied_job_ids and a warning; an unreadable knowledge file
\* gives empty answers and a warning; a missing knowledge file gives empty
\* answers and no warning; and the constructor goes on.
C8_LoadsNeverRaise ==
    /\ pc # "ctor_raised"
    /\ pc = "ready" =>
          /\ (~output_file.exists \/ "history" \in unreadable)
                => (applied_job_ids = << >> /\ "history" \in warned)
          /\ (qa_file.exists /\ "qa" \in unreadable)
                => (answers = << >> /\ "qa" \in warned)
          /\ ~qa_file.exists => (answers = << >> /\ "qa" \notin warned)

\* C8 witness: the constructor has gone on with the history file unreadable
\* and the knowledge file missing.
C8_Witness ==
    /\ pc = "ready"
    /\ output_file.exists /\ "history" \in unreadable
    /\ ~qa_file.exists

\* C8 as stated: a warning is logged for every missing or unreadable store.
C8_WarnsForEveryStore ==
    /\ pc # "ctor_raised"
    /\ pc = "ready" =>
          /\ (~output_file.exists \/ "history" \in unreadable)
                => (applied_job_ids = << >> /\ "history" \in warned)
          /\ (~qa_file.exists \/ "qa" \in unreadable)
                => (answers = << >> /\ "qa" \in warned)

\* ------------------------------------------- the answer resolver on its own

\* the phrases the rule chain of _get_answer searches for
RuleTokens ==
    { "how many years", "years of experience", "sponsor", "visa", "do you ", "have you ",
      "are you ", "can you ", "us citizen", "authorized", "legal right", "salary",
      "compensation", "gender", "race", "lgbtq", "ethnicity", "nationality", "education",
      "degree", "when can you start", "start date", "willing to relocate" }

\* the tokens longer form sections are composed of: a phrase of each of the
\* first five rules, a phrase of no rule, and a phrase in upper case
InputTokens ==
    { "years of experience", "sponsor", "are you ", "authorized", "salary",
      "favorite ide", "Sponsor" }

\* section.text of the form sections
SectionTexts ==
    UNION { [1..n -> InputTokens] : n \in 0..MaxQLen } \cup { << t >> : t \in RuleTokens }

AnswerInit ==
    /\ pc = "new"
    /\ now = 0
    /\ output_file = NoFile
    /\ qa_file \in KnowledgeFiles
    /\ \E cfg \in { << "100000", "" >>, << "100000", "per year" >> } :
          salary = cfg[1] /\ rate = cfg[2]
    /\ max_applications = 0
    /\ Defaults

\* one pass of the loop of _process_questions (lines 390-429) over a section
AnswerSection ==
    /\ pc = "ready"
    /\ Len(answers) <= MaxStore
    /\ \E text \in SectionTexts, io_ok \in BOOLEAN :
          LET r == process_section(answers, qa_file, text, salary, rate, io_ok)
          IN  /\ answers' = r.answers
              /\ qa_file' = r.qa_file
              /\ last' = [op |-> "resolved", question |-> Lower(text),
                          kind |-> r.result.kind, a |-> r.result.a, via |-> r.result.via,
                          entered |-> r.entered, before |-> answers, file_before |-> qa_file]
    /\ pc' = "resolved"
    /\ UNCHANGED << storeVars, loadVars, cfgVars, runVars, applyVars >>

\* the loop of _process_questions goes on to the next section
AnswerContinue ==
    /\ pc = "resolved"
    /\ pc' = "ready"
    /\ last' = NoResolution
    /\ UNCHANGED << storeVars, loadVars, qa_file, answers, cfgVars, runVars, applyVars >>

AnswerNext == Construct \/ AnswerSection \/ AnswerContinue

SpecAnswer == AnswerInit /\ [][AnswerNext]_vars

\* the records of store d whose question, lowercased, is in the question
Matching(d, question) ==
    { i \in DOMAIN d : ~d[i].q.nan /\ Contains(Lower(d[i].q.text), question) }

\* the least number of a nonempty set of numbers
Least(S) == CHOOSE i \in S : \A k \in S : i <= k

\* C9: when a stored question, lowercased, is a substring of the live
\* question, _get_answer returns the answer of the first such record in
\* insertion order, from the store, and appends nothing.
C9_StoredAnswerWins ==
    (last.op = "resolved" /\ Matching(last.before, last.question) # {}) =>
        /\ last.kind = "answer"
        /\ last.via = "store"
        /\ last.a = last.before[Least(Matching(last.before, last.question))].a
        /\ answers = last.before
        /\ qa_file = last.file_before

\* the rule table of the specification: the phrases of each rule, in order
RulePhrases ==
    << { "how many years", "years of experience" },
       { "sponsor", "visa" },
       { "do you ", "have you ", "are you ", "can you " },
       { "us citizen", "authorized", "legal right" },
       { "salary", "compensation" },
       { "gender", "race", "lgbtq", "ethnicity", "nationality" },
       { "education", "degree" },
       { "when can you start", "start date" },
       { "willing to relocate" } >>

\* the answer of each rule of the table
RuleAnswers ==
    << "3", "No", "Yes", "Yes",
       IF salary # "" /\ rate # "" THEN SalaryText(salary, rate) ELSE "Negotiable",
       "Prefer not to say", "Bachelor's degree", "Immediately", "Yes" >>

\* the rules of the table a question matches
RulesMatching(question) ==
    { i \in DOMAIN RulePhrases : \E x \in RulePhrases[i] : Has(x, question) }

\* C10: when no stored question matches and a rule does, _get_answer returns
\* the answer of the first matching rule of the table.
C10_FirstRuleWins ==
    (/\ last.op = "resolved"
     /\ Matching(last.before, last.question) = {}
     /\ RulesMatching(last.question) # {}) =>
        /\ last.kind = "answer"
        /\ last.a = RuleAnswers[Least(RulesMatching(last.question))]

\* no record of the store before the last resolution has a NaN key
TextKeysOnly == \A i \in DOMAIN last.before : ~last.before[i].q.nan

\* C9 and C10 on the stores whose keys are all text
C9_OnTextKeys == TextKeysOnly => C9_StoredAnswerWins
C10_OnTextKeys == TextKeysOnly => C10_FirstRuleWins

\* the last resolution was of a question that no stored record and no rule
\* matches
Unmatched ==
    /\ last.op = "resolved"
    /\ Matching(last.before, last.question) = {}
    /\ RulesMatching(last.question) = {}

\* the record _store_new_question makes of the last question
NewRecord == [q |-> TextKey(last.question), a |-> "Yes"]

\* C11: a question that matches no stored record and no rule appends exactly
\* one record (one entry of the store, one line of the knowledge file),
\* returns no answer, and nothing is entered into the field; the loop of
\* _process_questions goes on without raising.
C11_OneNewRecord ==
    Unmatched =>
        /\ last.kind = "none"
        /\ last.entered = ""
        /\ answers = Append(last.before, NewRecord)
        /\ qa_file = write_question(last.file_before, TRUE, last.question, "Yes")
        /\ pc = "resolved"

\* C11 on the stores whose keys are all text, the line of the file left aside
\* when the write fails
C11_OnTextKeys ==
    (Unmatched /\ TextKeysOnly) =>
        /\ last.kind = "none"
        /\ last.entered = ""
        /\ answers = Append(last.before, NewRecord)
        /\ qa_file \in { last.file_before,
                          write_question(last.file_before, TRUE, last.question, "Yes") }

\* the same question resolved again on store d
Again(d) == get_answer(d, qa_file, last.question, salary, rate, TRUE)

\* C12: after an unresolved question has been resolved once, resolving the
\* same text again, in the same session or after the knowledge file is loaded
\* again, returns what the first resolution returned and appends no record.
C12_SameAnswerAgain ==
    (last.op = "resolved" /\ last.via = "new") =>
        \A d \in { answers, load_qa_data(qa_file, TRUE).answers } :
            /\ Again(d).kind = last.kind
            /\ Again(d).a = last.a
            /\ Again(d).answers = d
            /\ Again(d).qa_file = qa_file

\* C12 without the result of the first resolution: in the same session the
\* question is answered from the store and nothing is appended
C12_SilentAgain ==
    (last.op = "resolved" /\ last.via = "new") =>
        /\ Again(answers).kind = "answer"
        /\ Again(answers).via = "store"
        /\ Again(answers).answers = answers
        /\ Again(answers).qa_file = qa_file

\* ------------------------------------------------------------- the session

\* __main__: the configuration the bot is run with
blacklist == { "CompanyA", "CompanyB" }
blacklist_titles == { "Senior", "Lead" }
uploads == { "resume", "cover_letter" }
positions == << "Software Engineer" >>
locations == << "United States", "Remote" >>

\* the job cards of a result page: data-job-id ("" when the attribute is
\* missing) and the words of card.text
Cards ==
    { [id |-> "j1", text |-> << "Dev", "Acme" >>],
      [id |-> "j2", text |-> << "Dev", "Acme" >>],
      [id |-> "j1", text |-> << "Dev", "Acme", "Applied" >>],
      [id |-> "j2", text |-> << "Dev", "CompanyA" >>],
      [id |-> "search", text |-> << "Dev", "Acme" >>],
      [id |-> "", text |-> << "Dev", "Acme" >>] }

\* driver.title of the job pages of the session
SessionTitles == { "Dev | Acme", "Senior Dev | Acme" }

\* the result pages: one or two cards
Listings == UNION { [1..n -> Cards] : n \in 1..2 }

\* the form sections find_elements returns for one step of a form
Forms == { << >>, << << "Favorite IDE" >> >> }

\* what looking for a control and using it comes to
Ctl == { "absent", "ok", "fail" }

\* the exceptions that leave a browser call: TimeoutException, or another
ExcKinds == { "timeout", "error" }

\* process_job_listings, lines 269-283, with the tests of lines 273-277 left
\* out
RECURSIVE BuildJobIdsUnfiltered(_)
BuildJobIdsUnfiltered(listing) ==
    IF listing = << >> THEN << >>
    ELSE LET card == listing[Len(listing)]
             init == BuildJobIdsUnfiltered(SubSeq(listing, 1, Len(listing) - 1))
         IN  IF card.id # "" /\ card.id # "search"
             THEN IF \E i \in DOMAIN init : init[i].id = card.id
                  THEN [i \in DOMAIN init |-> IF init[i].id = card.id THEN card ELSE init[i]]
                  ELSE Append(init, card)
             ELSE init

\* process_job_listings, lines 269-283: job_ids, as (job_id, card.text) items
\* in insertion order
RECURSIVE BuildJobIds(_)
BuildJobIds(listing) ==
    IF listing = << >> THEN << >>
    ELSE LET card == listing[Len(listing)]
             init == BuildJobIds(SubSeq(listing, 1, Len(listing) - 1))
         IN  IF Has("Applied", card.text) THEN init
             ELSE IF \E company \in blacklist : Has(company, card.text) THEN init
             ELSE IF card.id # "" /\ card.id # "search"
             THEN IF \E i \in DOMAIN init : init[i].id = card.id
                  THEN [i \in DOMAIN init |-> IF init[i].id = card.id THEN card ELSE init[i]]
                  ELSE Append(init, card)
             ELSE init

\* process_job_listings, line 289, the wrong way round: > for >=
CapReachedLate(count, max) == count > max

\* process_job_listings, lines 289-291, with the test left out
CapReachedNever(count, max) == FALSE

\* process_job_listings, line 289: self.application_count >= self.max_applications
CapReached(count, max) == count >= max

\* run, lines 621 and 629: the same test before each search
RunCapReached(count, max) == count >= max

\* process_job_listings, line 293, with the test left out
AlreadyAppliedNever(j, ids) == FALSE

\* process_job_listings, line 293: job_id in self.applied_job_ids
AlreadyApplied(j, ids) == \E i \in DOMAIN ids : ids[i] = j

\* apply_to_job, lines 311-312: a blacklisted keyword is in the job title
\* apply_to_job, line 312, comparing the title as it is written: without the
\* two lower()
BlacklistedTitleCaseSensitive(title) ==
    LET job_title == SplitTitle(title)[1]
    IN  \E t \in blacklist_titles : Contains(<< t >>, Words(job_title))

BlacklistedTitle(title) ==
    LET job_title == SplitTitle(title)[1]
    IN  \E t \in blacklist_titles : Contains(Lower(<< t >>), Lower(Words(job_title)))

Init ==
    /\ pc = "new"
    /\ now = 0
    /\ output_file = NoFile
    /\ qa_file = NoFile
    /\ salary = "100000" /\ rate = "per year"
    /\ max_applications \in 0..MaxCap
    /\ Defaults

\* run, line 616, had run no try: an exception of login() leaves run
LoginUncaught ==
    /\ pc = "ready"
    /\ \/ pc' = "run"
       \/ pc' = "crashed"
    /\ UNCHANGED << storeVars, loadVars, knowVars, cfgVars, runVars, applyVars >>

\* run, line 616: login() returns, or raises into the except of run
Login ==
    /\ pc = "ready"
    /\ \/ pc' = "run"
       \/ pc' = "quit"
    /\ UNCHANGED << storeVars, loadVars, knowVars, cfgVars, runVars, applyVars >>

\* the loops of run after process_job_listings has returned: the next page,
\* or the next location, or the next position
Advance ==
    IF page < LastPage
    THEN /\ page' = page + 1
         /\ UNCHANGED << pos, loc >>
    ELSE /\ page' = 0
         /\ IF loc < Len(locations)
            THEN loc' = loc + 1 /\ UNCHANGED pos
            ELSE loc' = 1 /\ pos' = pos + 1

\* run, lines 621-622 and 629-630: the cap is reached. Before the first page
\* the break leaves the loop over the locations, before a later page the
\* loop over the pages.
RunBreak ==
    /\ pc = "run"
    /\ pos <= Len(positions)
    /\ RunCapReached(application_count, max_applications)
    /\ IF page = 0
       THEN pos' = pos + 1 /\ loc' = 1 /\ page' = 0
       ELSE /\ page' = 0
            /\ IF loc < Len(locations)
               THEN loc' = loc + 1 /\ UNCHANGED pos
               ELSE loc' = 1 /\ pos' = pos + 1
    /\ UNCHANGED << pc, storeVars, loadVars, knowVars, cfgVars, application_count, served,
                    pending, skipped, job_cards, applyVars >>

\* run, lines 624 and 632: search_jobs returns, or raises into the except
RunSearch ==
    /\ pc = "run"
    /\ pos <= Len(positions)
    /\ ~RunCapReached(application_count, max_applications)
    /\ \/ pc' = "listing"
       \/ pc' = "quit"
    /\ UNCHANGED << storeVars, loadVars, knowVars, cfgVars, runVars, applyVars >>

\* run, line 635: the loops are over
RunComplete ==
    /\ pc = "run"
    /\ pos > Len(positions)
    /\ pc' = "quit"
    /\ UNCHANGED << storeVars, loadVars, knowVars, cfgVars, runVars, applyVars >>

\* run, line 639: driver.quit()
Quit ==
    /\ pc = "quit"
    /\ pc' = "done"
    /\ UNCHANGED << storeVars, loadVars, knowVars, cfgVars, runVars, applyVars >>

\* process_job_listings, lines 264-285: no cards in time (the except of line
\* 299), another exception (out to run), or the cards of the page
ProcessListings ==
    /\ pc = "listing"
    /\ \/ /\ pc' = "run"
          /\ Advance
          /\ UNCHANGED << served, pending, job_cards >>
       \/ /\ pc' = "quit"
          /\ UNCHANGED << pos, loc, page, served, pending, job_cards >>
       \/ \E listing \in Listings :
             /\ served + Len(listing) <= MaxCards
             /\ served' = served + Len(listing)
             /\ job_cards' = listing
             /\ pending' = BuildJobIds(listing)
             /\ pc' = "jobs"
             /\ UNCHANGED << pos, loc, page >>
    /\ UNCHANGED << storeVars, loadVars, knowVars, cfgVars, application_count, skipped,
                    applyVars >>

\* process_job_listings, line 288: job_ids is exhausted
ListingDone ==
    /\ pc = "jobs"
    /\ pending = << >>
    /\ pc' = "run"
    /\ Advance
    /\ skipped' = ""
    /\ job_cards' = << >>
    /\ UNCHANGED << storeVars, loadVars, knowVars, cfgVars, application_count, served,
                    pending, applyVars >>

\* process_job_listings, lines 289-291: the cap is reached
ListingCap ==
    /\ pc = "jobs"
    /\ pending # << >>
    /\ CapReached(application_count, max_applications)
    /\ pc' = "run"
    /\ pending' = << >>
    /\ Advance
    /\ skipped' = ""
    /\ job_cards' = << >>
    /\ UNCHANGED << storeVars, loadVars, knowVars, cfgVars, application_count, served,
                    applyVars >>

\* process_job_listings, line 293: the job id is in applied_job_ids
ListingSkip ==
    /\ pc = "jobs"
    /\ pending # << >>
    /\ ~CapReached(application_count, max_applications)
    /\ AlreadyApplied(Head(pending).id, applied_job_ids)
    /\ skipped' = Head(pending).id
    /\ job_cards' = << >>
    /\ pending' = Tail(pending)
    /\ UNCHANGED << pc, storeVars, loadVars, knowVars, cfgVars, application_count, pos, loc,
                    page, served, applyVars >>

\* process_job_listings, line 294: apply_to_job is called
ListingApply ==
    /\ pc = "jobs"
    /\ pending # << >>
    /\ ~CapReached(application_count, max_applications)
    /\ ~AlreadyApplied(Head(pending).id, applied_job_ids)
    /\ pc' = "apply"
    /\ job_id' = Head(pending).id
    /\ skipped' = ""
    /\ job_cards' = << >>
    /\ UNCHANGED << storeVars, loadVars, knowVars, cfgVars, application_count, pos, loc, page,
                    served, pending, page_title, attempts, offered, submit_result, ret,
                    attempt_rows, failed_writes, trace >>

\* ---------------------------------------------------------------- one attempt

\* f"Error: {str(e)}"
ErrorResult == "Error: WebDriverException"

\* _record_application(job_id, attempted, result) writing its row
Written(attempted, result) ==
    LET row == RecordRow(now, job_id, page_title', attempted, result, UrlOf(job_id))
    IN  /\ output_file' = record_application(output_file, TRUE, row)
        /\ attempt_rows' = Append(attempt_rows, row)
        /\ UNCHANGED failed_writes

\* _record_application failing to write: the OSError is caught and logged
NotWritten(result) ==
    /\ output_file' = record_application(output_file, FALSE, << >>)
    /\ failed_writes' = failed_writes \cup { << "history", result >> }
    /\ UNCHANGED attempt_rows

\* _record_application, lines 589 and 600: driver.title or driver.current_url
\* raises before anything is written
RecorderRaised == UNCHANGED << output_file, attempt_rows, failed_writes >>

\* apply_to_job, line 349: _record_application in the except clause, then
\* return False; driver.title or driver.current_url raising leaves apply_to_job
RecordError ==
    \/ Written(FALSE, ErrorResult) /\ ret' = "False"
    \/ NotWritten(ErrorResult) /\ ret' = "False"
    \/ RecorderRaised /\ ret' \in ExcKinds

\* apply_to_job, lines 314, 321 and 331: _record_application outside the try,
\* then return False
RecordOutsideTry(result) ==
    \/ Written(FALSE, result) /\ ret' = "False"
    \/ NotWritten(result) /\ ret' = "False"
    \/ RecorderRaised /\ ret' \in ExcKinds

\* apply_to_job, lines 341 and 345, had _record_application no try of its
\* own: the failed write goes to the except clause of line 347
RecordInTryUnguarded(attempted, result, value) ==
    \/ Written(attempted, result) /\ ret' = value
    \/ NotWritten(result) /\ ret' = "False"

\* apply_to_job, lines 341 and 345: _record_application inside the try, then
\* the return; an exception of it goes to the except clause (line 347)
RecordInTry(attempted, result, value) ==
    \/ Written(attempted, result) /\ ret' = value
    \/ NotWritten(result) /\ ret' = value
    \/ RecordError

\* driver.title of the job page apply_to_job loads: a title of the session,
\* and, where the attempt is looked at alone, one in other letter case
JobTitles ==
    IF trace.on THEN SessionTitles \cup { "LEAD Dev | CompanyA" } ELSE SessionTitles

\* apply_to_job, lines 304-332: the job page, the title check, the Easy Apply
\* button and its click
ApplyEnter ==
    /\ pc = "apply"
    /\ \/ /\ ret' \in ExcKinds
          /\ pc' = "apply_ret"
          /\ UNCHANGED << page_title, output_file, attempt_rows, failed_writes >>
       \/ \E title \in JobTitles :
             /\ page_title' = title
             /\ IF BlacklistedTitle(title)
                THEN /\ RecordOutsideTry("Blacklisted title")
                     /\ pc' = "apply_ret"
                ELSE \/ /\ RecordOutsideTry("No Easy Apply")
                        /\ pc' = "apply_ret"
                     \/ /\ RecordOutsideTry("Easy Apply click failed")
                        /\ pc' = "apply_ret"
                     \/ /\ pc' = "fill"
                        /\ UNCHANGED << ret, output_file, attempt_rows, failed_writes >>
    /\ UNCHANGED << appended, loadVars, knowVars, cfgVars, runVars, job_id, attempts, offered,
                    submit_result, trace >>

\* apply_to_job, line 336: _fill_application_form (the phone number and
\* _process_questions), or an exception of find_elements
FillForm ==
    /\ pc = "fill"
    /\ \/ /\ submit_result' = "raise"
          /\ pc' = "submit_ret"
          /\ UNCHANGED << qa_file, answers, failed_writes, trace >>
       \/ \E sections \in Forms, io_ok \in BOOLEAN :
             LET r == process_questions(answers, qa_file, sections, salary, rate, io_ok)
             IN  /\ answers' = r.answers
                 /\ qa_file' = r.qa_file
                 /\ failed_writes' = IF io_ok THEN failed_writes
                                      ELSE failed_writes
                                               \cup { << "knowledge", q >> : q \in r.new }
                 /\ trace' = [trace EXCEPT !.filled = trace.on]
                 /\ pc' = "submit"
                 /\ UNCHANGED submit_result
    /\ UNCHANGED << storeVars, loadVars, last, cfgVars, runVars, job_id, page_title, attempts,
                    offered, ret, attempt_rows >>

\* the record of the pass that found, did and done describe; shown: the fields
\* of the step on display after the pass are filled
Traced(found, did, done, shown) ==
    trace' = IF trace.on
             THEN [on |-> TRUE, pass |-> attempts + 1, found |-> found, did |-> did,
                   done |-> done, was_filled |-> trace.filled, filled |-> shown]
             ELSE trace

\* a click of next or review went through: the form shows its next step, with
\* empty fields, or stays on the step it showed
Advanced == IF trace.on THEN BOOLEAN ELSE { FALSE }

\* _submit_application, lines 527-533 of one pass: the uploads, then the
\* errors. found, did: what the pass has found and used before.
UploadsAndErrors(found, did) ==
    \E resume \in Ctl :
        LET f1 == found \cup (IF "resume" \in uploads /\ resume # "absent"
                              THEN { "resume" } ELSE {})
            d1 == did \cup (IF "resume" \in f1 THEN { "upload" } ELSE {})
        IN  IF "resume" \in uploads /\ resume = "ok"
            THEN /\ offered' = TRUE
                 /\ Traced(f1, d1, { "upload" }, trace.filled)
                 /\ UNCHANGED << qa_file, answers >>
            ELSE \E cover \in Ctl :
                LET f2 == f1 \cup (IF "cover_letter" \in uploads /\ cover # "absent"
                                   THEN { "cover" } ELSE {})
                    d2 == d1 \cup (IF "cover" \in f2 THEN { "upload" } ELSE {})
                IN  IF "cover_letter" \in uploads /\ cover = "ok"
                    THEN /\ offered' = TRUE
                         /\ Traced(f2, d2, { "upload" }, trace.filled)
                         /\ UNCHANGED << qa_file, answers >>
                    ELSE /\ offered' = (offered \/ found # {} \/ resume # "absent"
                                            \/ cover # "absent")
                         /\ \/ /\ Traced(f2, d2, {}, trace.filled)
                               /\ UNCHANGED << qa_file, answers >>
                            \/ \E sections \in Forms :
                                  LET r == process_questions(answers, qa_file, sections,
                                                             salary, rate, TRUE)
                                  IN  /\ answers' = r.answers
                                      /\ qa_file' = r.qa_file
                                      /\ Traced(f2 \cup { "error" }, d2 \cup { "reanswer" },
                                                { "reanswer" }, TRUE)

\* _submit_application, lines 509-533 of one pass: the next button, else the
\* review button; a click that goes through ends the pass, otherwise the
\* uploads and the errors follow. found, did: what the pass has found and
\* used before.
NextOrReview(found, did) ==
    \E next \in Ctl :
        IF next = "ok"
        THEN /\ offered' = TRUE
             /\ \E advanced \in Advanced :
                   Traced(found \cup { "next" }, did \cup { "next" }, { "next" },
                          trace.filled /\ ~advanced)
             /\ UNCHANGED << qa_file, answers >>
        ELSE IF next = "fail"
        THEN UploadsAndErrors(found \cup { "next" }, did \cup { "next" })
        ELSE \E review \in Ctl :
                IF review = "ok"
                THEN /\ offered' = TRUE
                     /\ \E advanced \in Advanced :
                           Traced(found \cup { "review" }, did \cup { "review" },
                                  { "review" }, trace.filled /\ ~advanced)
                     /\ UNCHANGED << qa_file, answers >>
                ELSE IF review = "fail"
                THEN UploadsAndErrors(found \cup { "review" }, did \cup { "review" })
                ELSE UploadsAndErrors(found, did)

\* _submit_application, lines 504-506, without the continue: after the failed
\* click of submit the pass goes on to the next and review buttons
SubmitClickFailedFallsThrough == NextOrReview({ "submit" }, { "submit" })

\* _submit_application, lines 504-506: the click of submit raised, continue
SubmitClickFailed ==
    /\ offered' = TRUE
    /\ Traced({ "submit" }, { "submit" }, {}, trace.filled)
    /\ UNCHANGED << qa_file, answers >>

\* _submit_application, line 493, with the bound off by one: <= for <
LoopContinuesLate(n) == n <= max_attempts

\* _submit_application, line 493: while attempts < max_attempts
LoopContinues(n) == n < max_attempts

\* _submit_application, line 494, left out: a pass costs nothing
ConsumedNothing(n) == n

\* _submit_application, line 494: attempts += 1
Consumed(n) == n + 1

\* _submit_application, lines 493-533: one pass of the loop
SubmitPass ==
    /\ pc = "submit"
    /\ LoopContinues(attempts)
    /\ attempts' = Consumed(attempts)
    /\ \/ /\ submit_result' = "raise"
          /\ pc' = "submit_ret"
          /\ Traced({}, {}, {}, trace.filled)
          /\ UNCHANGED << offered, qa_file, answers >>
       \/ /\ submit_result' = "True"
          /\ pc' = "submit_ret"
          /\ offered' = TRUE
          /\ Traced({ "submit" }, { "submit" }, { "submit" }, trace.filled)
          /\ UNCHANGED << qa_file, answers >>
       \/ /\ UNCHANGED << pc, submit_result >>
          /\ \/ SubmitClickFailed
             \/ NextOrReview({}, {})
    /\ UNCHANGED << storeVars, loadVars, last, cfgVars, runVars, job_id, page_title, ret,
                    attempt_rows, failed_writes >>

\* _submit_application, lines 535-536: the loop is over
SubmitExhausted ==
    /\ pc = "submit"
    /\ ~LoopContinues(attempts)
    /\ submit_result' = "False"
    /\ pc' = "submit_ret"
    /\ UNCHANGED << storeVars, loadVars, knowVars, cfgVars, runVars, job_id, page_title,
                    attempts, offered, ret, attempt_rows, failed_writes, trace >>

\* apply_to_job, lines 337-355: the outcome of the form is recorded
ApplyFinish ==
    /\ pc = "submit_ret"
    /\ pc' = "apply_ret"
    /\ page_title' = page_title
    /\ IF submit_result = "True" THEN RecordInTry(TRUE, "Applied", "True")
       ELSE IF submit_result = "False" THEN RecordInTry(FALSE, "Submission failed", "False")
       ELSE RecordError
    /\ attempts' = 0
    /\ offered' = FALSE
    /\ UNCHANGED << appended, loadVars, knowVars, cfgVars, runVars, job_id, submit_result,
                    trace >>

\* process_job_listings, line 296, left out: the job id is not remembered
AppendAppliedNot(ids, id) == ids

\* process_job_listings, line 296: self.applied_job_ids.append(job_id)
AppendApplied(ids, id) == Append(ids, id)

\* process_job_listings, line 295, counting every call that came back
SuccessOfAnyReturn(r) == r \in { "True", "False" }

\* process_job_listings, line 295: if success
Success(r) == r = "True"

\* process_job_listings, lines 294-299: what apply_to_job did. True: the job
\* is counted. False: the next job. TimeoutException: the except of line 299
\* ends the page. Another exception: out to the except of run.
AfterApply ==
    /\ pc = "apply_ret"
    /\ IF Success(ret)
       THEN /\ applied_job_ids' = AppendApplied(applied_job_ids, job_id)
            /\ application_count' = application_count + 1
            /\ pending' = Tail(pending)
            /\ pc' = "jobs"
            /\ UNCHANGED << pos, loc, page >>
       ELSE IF ret = "False"
       THEN /\ pending' = Tail(pending)
            /\ pc' = "jobs"
            /\ UNCHANGED << applied_job_ids, application_count, pos, loc, page >>
       ELSE IF ret = "timeout"
       THEN /\ pending' = << >>
            /\ pc' = "run"
            /\ Advance
            /\ UNCHANGED << applied_job_ids, application_count >>
       ELSE /\ pc' = "quit"
            /\ pending' = << >>
            /\ UNCHANGED << applied_job_ids, application_count, pos, loc, page >>
    /\ ResetAttempt
    /\ UNCHANGED << storeVars, warned, unreadable, loaded, knowVars, cfgVars, served, skipped,
                    job_cards >>

Next ==
    \/ Construct \/ Login
    \/ RunBreak \/ RunSearch \/ RunComplete \/ Quit
    \/ ProcessListings \/ ListingDone \/ ListingCap \/ ListingSkip \/ ListingApply
    \/ ApplyEnter \/ FillForm \/ SubmitPass \/ SubmitExhausted \/ ApplyFinish \/ AfterApply

Spec == Init /\ [][Next]_vars

\* ------------------------------------------------- the session and its cap

\* the positions of a call of apply_to_job
InApply == pc \in { "apply", "fill", "submit", "submit_ret", "apply_ret" }

\* C1: in every reachable state of a session started with max_applications
\* >= 0, application_count <= max_applications, whatever the searches, the
\* listing pages and the outcomes of apply_to_job have been.
C1_CountWithinCap == application_count <= max_applications

\* a session that has submitted as many applications as its cap of two allows
C1_Witness ==
    /\ max_applications > 1
    /\ application_count = max_applications
    /\ Len(applied_job_ids) = max_applications

\* C2: once application_count equals max_applications, apply_to_job is never
\* invoked again: a call of apply_to_job is only ever in progress while the
\* count it started with is below the cap.
C2_NoApplyAtCap == InApply => application_count < max_applications

\* the cap is reached while a candidate of the page is still to be processed
C2_Witness ==
    /\ pc = "jobs"
    /\ pending # << >>
    /\ max_applications > 0
    /\ application_count = max_applications

\* C3: _submit_application makes at most max_attempts passes of its loop for
\* any sequence of page states, and when no pass found a submit, next, review
\* or upload control it returns False after max_attempts passes, which
\* apply_to_job hands to the recorder as a failed, unattempted submission.
C3_SubmitBounded ==
    /\ attempts <= max_attempts
    /\ (pc = "submit_ret" /\ ~offered /\ submit_result # "raise")
          => (submit_result = "False" /\ attempts = max_attempts)
    /\ (pc = "apply_ret" /\ submit_result = "False")
          => \A i \in DOMAIN attempt_rows :
                /\ attempt_rows[i][5] = BoolText(FALSE)
                /\ attempt_rows[i][6] \in { "Submission failed", ErrorResult }

\* the loop has ended on a page that never offered a control
C3_Witness ==
    /\ pc = "submit_ret"
    /\ ~offered
    /\ submit_result = "False"
    /\ attempts = max_attempts

\* C4: every call of apply_to_job(job_id) appends exactly one record to the
\* history file, with the job_id of the candidate and one of the six results,
\* on every path, also when the navigation or the recorder raises. (A row is
\* the tuple of HistoryHeader: job_id is its 2nd cell, result its 6th.)
C4_OneRecordPerAttempt ==
    pc = "apply_ret"
        => /\ Len(attempt_rows) = 1
           /\ attempt_rows[1][2] = job_id
           /\ attempt_rows[1][6] \in
                 { "Applied", "No Easy Apply", "Blacklisted title",
                   "Easy Apply click failed", "Submission failed", ErrorResult }
           /\ output_file.exists
           /\ output_file.rows[Len(output_file.rows)] = attempt_rows[1]

\* C5: a candidate whose job id is in applied_job_ids when it is considered
\* is skipped: apply_to_job is not invoked for it, and the step that
\* considers it neither opens its page nor writes to the history file.
C5_AppliedIsSkipped ==
    [][ (pc = "jobs" /\ pending # << >>
            /\ Head(pending).id \in ToSet(applied_job_ids))
          => (pc' # "apply" /\ job_id' = "" /\ output_file' = output_file) ]_vars

\* a job applied to earlier in the session has come up again and was skipped
C5_Witness ==
    /\ skipped # ""
    /\ skipped \in ToSet(applied_job_ids)
    /\ pc = "jobs"

\* --------------------------------------------------- the candidate filter

\* the snippet of a card holds a blacklisted company or the marker 'Applied'
Rejected(card) ==
    \/ Contains(<< "Applied" >>, card.text)
    \/ \E company \in blacklist : Contains(<< company >>, card.text)

\* C13: a card whose snippet holds a blacklisted company (as written) or the
\* marker 'Applied' is rejected by process_job_listings while it builds
\* job_ids: that step opens no job page, writes no record and leaves
\* application_count alone, the card is not among the candidates, and
\* apply_to_job is only ever called with a candidate that is not rejected.
C13_RejectedBeforeNavigation ==
    [][ /\ pc = "listing"
            => /\ pc' # "apply"
               /\ job_id' = job_id
               /\ output_file' = output_file
               /\ application_count' = application_count
               /\ \A i \in DOMAIN job_cards' :
                     Rejected(job_cards'[i]) => job_cards'[i] \notin ToSet(pending')
        /\ (pc # "apply" /\ pc' = "apply")
            => /\ pending # << >>
               /\ job_id' = Head(pending).id
               /\ ~Rejected(Head(pending)) ]_vars

\* a page of two cards, one of a blacklisted company, has left one candidate
C13_Witness ==
    /\ pc = "jobs"
    /\ Len(job_cards) = 2
    /\ Rejected(job_cards[2])
    /\ Contains(<< "CompanyA" >>, job_cards[2].text)
    /\ pending = << job_cards[1] >>

\* ------------------------------------------------------- failed file writes

\* C14: a failed write to the history file or to the knowledge file aborts
\* neither the attempt nor the session. apply_to_job returns normally after
\* a failed history write, and True when the failed write was that of a
\* successful submit; the job is then counted and its id added to
\* applied_job_ids; a question whose write failed is in self.answers and
\* the form goes on to _submit_application; process_job_listings goes on
\* with the next candidate.
C14_WriteFailureGoesOn ==
    [][ /\ pc' = "apply_ret"
            => /\ << "history", "Applied" >> \in failed_writes' => ret' = "True"
               /\ (\E f \in failed_writes' : f[1] = "history")
                     => ret' \in { "True", "False" }
        /\ \A f \in failed_writes' :
               f[1] = "knowledge"
                   => \E i \in DOMAIN answers' : answers'[i].q = TextKey(f[2])
        /\ (pc = "fill" /\ failed_writes' # failed_writes) => pc' = "submit"
        /\ (pc = "apply_ret" /\ failed_writes # {} /\ ret \in { "True", "False" })
            => /\ pc' = "jobs"
               /\ pending' = Tail(pending)
               /\ ret = "True"
                    => /\ application_count' = application_count + 1
                       /\ applied_job_ids' = Append(applied_job_ids, job_id) ]_vars

\* a submitted application whose history write and knowledge write both failed
C14_Witness ==
    /\ pc = "apply_ret"
    /\ ret = "True"
    /\ << "history", "Applied" >> \in failed_writes
    /\ \E f \in failed_writes : f[1] = "knowledge"
    /\ attempt_rows = << >>

\* ------------------------------------------------------------ the teardown

\* Every handler of the session returns or raises (WebDriverWait and the
\* loops are bounded), so a step that can be taken is taken.
SpecFair == Init /\ [][Next]_vars /\ WF_vars(Next)

\* C15: every execution of run() eventually calls driver.quit(), whether the
\* loops end, the cap is reached, or login, a search, a listing or an attempt
\* raises; after the teardown nothing more happens, so there is no second
\* teardown and no browser operation after it.
C15_QuitsOnce ==
    /\ (pc = "ready") ~> (pc = "done")
    /\ [][pc # "done"]_vars

\* the browser is torn down after an attempt raised out of apply_to_job
C15_Witness ==
    /\ pc = "done"
    /\ application_count < max_applications
    /\ pos <= Len(positions)
    /\ served > 0

\* -------------------------------------------------------- the session clock

\* MAX_SEARCH_TIME = 60 * 60, in seconds
MAX_SEARCH_TIME == 60 * 60

\* the seconds of one day of the clock
SecondsPerDay == 24 * 60 * 60

\* the seconds since the session was constructed (now = 0)
Elapsed == now * SecondsPerDay

\* time passes between two searches of run: the delays and waits of the
\* pages (_random_delay, WebDriverWait) add up
SessionTick ==
    /\ pc = "run"
    /\ now < MaxDay
    /\ now' = now + 1
    /\ UNCHANGED << pc, storeVars, loadVars, knowVars, salary, rate, max_applications,
                    runVars, applyVars >>

\* the session up to its first call of apply_to_job, with the clock running
ClockNext ==
    \/ Construct \/ Login
    \/ RunBreak \/ RunSearch \/ RunComplete \/ Quit
    \/ ProcessListings \/ ListingDone \/ ListingApply
    \/ SessionTick

SpecClock == Init /\ [][ClockNext]_vars

\* C16: once the session has lasted longer than MAX_SEARCH_TIME, run starts
\* no further search and process_job_listings starts no further candidate.
C16_StopsAtCeiling ==
    [][ Elapsed > MAX_SEARCH_TIME
          => /\ ~(pc = "run" /\ pc' = "listing")
             /\ ~(pc = "jobs" /\ pc' = "apply") ]_vars

\* ------------------------------------------------ the history file over time

\* sequence s is the beginning of sequence t
IsPrefix(s, t) == Len(s) <= Len(t) /\ SubSeq(t, 1, Len(s)) = s

\* C17: the history file is append-only. Every step of a session leaves what
\* the file held as the beginning of what it holds, never removes the file,
\* adds at most one record, and the header is the first line and no other:
\* it is written only by the call that creates the file.
C17_AppendOnly ==
    [][ /\ IsPrefix(output_file.rows, output_file'.rows)
        /\ output_file.exists => output_file'.exists
        /\ Len(output_file'.rows) <= Len(output_file.rows)
                                        + (IF output_file.exists THEN 1 ELSE 2)
        /\ output_file'.exists
            => /\ output_file'.rows[1] = HistoryHeader
               /\ \A i \in 2..Len(output_file'.rows) : output_file'.rows[i] # HistoryHeader
      ]_vars

\* two attempts of a session have each appended their record to the file
C17_Witness ==
    /\ output_file.exists
    /\ Len(output_file.rows) = 3
    /\ output_file.rows[2][2] # output_file.rows[3][2]
    /\ pc = "apply_ret"

\* ---------------------------------------------------------------------------
\* the form of one job: apply_to_job from line 335 on, with every pass of
\* _submit_application recorded

\* apply_to_job at line 335: the job page is loaded, the Easy Apply button was
\* clicked, nothing is recorded yet
FormInit ==
    /\ pc = "fill"
    /\ now = 0
    /\ output_file = NoFile
    /\ qa_file = NoFile
    /\ salary = "100000" /\ rate = "per year"
    /\ max_applications = 1
    /\ appended = << >>
    /\ applied_job_ids = << >>
    /\ warned = {}
    /\ unreadable = {}
    /\ loaded = 0
    /\ answers = << >>
    /\ last = NoResolution
    /\ application_count = 0
    /\ pos = 1 /\ loc = 1 /\ page = 0
    /\ served = 1
    /\ pending = << [id |-> "j1", text |-> << "Dev", "Acme" >>] >>
    /\ job_id = "j1"
    /\ page_title = "Dev | Acme"
    /\ attempts = 0
    /\ offered = FALSE
    /\ submit_result = ""
    /\ ret = ""
    /\ attempt_rows = << >>
    /\ failed_writes = {}
    /\ trace = StartTrace(TRUE)
    /\ skipped = ""
    /\ job_cards = << >>

FormNext == FillForm \/ SubmitPass \/ SubmitExhausted \/ ApplyFinish

SpecForm == FormInit /\ [][FormNext]_vars

\* C18: in every pass of the form-step loop that finds a next control, the
\* fields of the step on display have been filled before the next control is
\* clicked
C18_FilledBeforeNext ==
    (trace.on /\ "next" \in trace.did) => trace.was_filled

\* a pass of the loop of _submit_application is taken in this step
PassTaken == pc = "submit" /\ attempts' = attempts + 1

\* C19: a pass that finds a submit control clicks it and uses no next, review
\* or upload control and re-answers nothing; _submit_application returns True
\* in a pass exactly when the click of submit went through; a click that
\* raised costs one attempt and leaves the loop at its head for the next pass
C19_SubmitFirst ==
    [][ PassTaken =>
          /\ "submit" \in trace'.found =>
                /\ trace'.found = { "submit" }
                /\ trace'.did = { "submit" }
                /\ trace'.done \subseteq { "submit" }
                /\ UNCHANGED << answers, qa_file >>
                /\ "submit" \notin trace'.done =>
                      /\ pc' = "submit"
                      /\ trace'.pass = attempts + 1
                      /\ UNCHANGED submit_result
          /\ (pc' = "submit_ret" /\ submit_result' = "True") <=> "submit" \in trace'.done
      ]_vars

C19_Witness ==
    /\ trace.on
    /\ trace.found = { "submit" } /\ trace.did = { "submit" } /\ trace.done = {}
    /\ trace.pass = 2 /\ attempts = 2
    /\ pc = "submit"

\* C20: the controls of a pass exclude one another in the order submit, next,
\* review, upload, error: a file is given to an upload control only in a pass
\* that found no submit, next or review control, and the questions are
\* re-answered only in a pass that found none of these and no upload control
C20_OneControlPerPass ==
    trace.on =>
        /\ "upload" \in trace.done =>
              trace.found \cap { "submit", "next", "review" } = {}
        /\ "reanswer" \in trace.did =>
              trace.found \cap { "submit", "next", "review", "resume", "cover" } = {}

\* ---------------------------------------------------------------------------
\* one call of apply_to_job and what process_job_listings makes of it

\* process_job_listings at line 294: apply_to_job is called for the one
\* candidate of the page
AttemptInit ==
    /\ pc = "apply"
    /\ now = 0
    /\ output_file = NoFile
    /\ qa_file = NoFile
    /\ salary = "100000" /\ rate = "per year"
    /\ max_applications = 1
    /\ appended = << >>
    /\ applied_job_ids = << >>
    /\ warned = {}
    /\ unreadable = {}
    /\ loaded = 0
    /\ answers = << >>
    /\ last = NoResolution
    /\ application_count = 0
    /\ pos = 1 /\ loc = 1 /\ page = 0
    /\ served = 1
    /\ pending = << [id |-> "j1", text |-> << "Dev", "Acme" >>] >>
    /\ job_id = "j1"
    /\ page_title = ""
    /\ attempts = 0
    /\ offered = FALSE
    /\ submit_result = ""
    /\ ret = ""
    /\ attempt_rows = << >>
    /\ failed_writes = {}
    /\ trace = StartTrace(TRUE)
    /\ skipped = ""
    /\ job_cards = << >>

AttemptNext ==
    ApplyEnter \/ FillForm \/ SubmitPass \/ SubmitExhausted \/ ApplyFinish \/ AfterApply

SpecAttempt == AttemptInit /\ [][AttemptNext]_vars

\* the title apply_to_job has just read holds a keyword of blacklist_titles,
\* whatever the letter case
KeywordInTitle ==
    /\ page_title' # ""
    /\ \E t \in blacklist_titles :
          Contains(Lower(<< t >>), Lower(Words(SplitTitle(page_title')[1])))

\* the recorder was called in this step with this result alone, and came back:
\* its row is the one row of the call, or its write failed and was logged
RecordedOnly(result) ==
    /\ Len(attempt_rows') <= 1
    /\ \A i \in DOMAIN attempt_rows' :
          /\ attempt_rows'[i][2] = job_id
          /\ attempt_rows'[i][5] = "False"
          /\ attempt_rows'[i][6] = result
    /\ failed_writes' \subseteq { << "history", result >> }

RecorderCameBack == attempt_rows' # << >> \/ failed_writes' # {}

C22_CountsSubmissions ==
    /\ [](pc # "new" => application_count = Len(applied_job_ids))
    /\ [][ /\ (pc = "apply_ret" /\ ret = "True") =>
                 /\ application_count' = application_count + 1
                 /\ applied_job_ids' = Append(applied_job_ids, job_id)
           /\ (pc = "apply_ret" /\ ret # "True") =>
                 UNCHANGED << application_count, applied_job_ids >>
           /\ pc = "new" => (application_count' = 0 /\ applied_job_ids' = << >>)
           /\ pc \notin { "new", "apply_ret" } =>
                 UNCHANGED << application_count, applied_job_ids >>
         ]_vars

\* a job whose attempt of this session failed is attempted again
C22_Witness ==
    /\ pc = "apply"
    /\ application_count = 0
    /\ job_id \notin ToSet(applied_job_ids)
    /\ \E i \in DOMAIN output_file.rows :
          /\ output_file.rows[i][2] = job_id
          /\ output_file.rows[i][6] = "Submission failed"

\* the rows of the history file that record a submitted application of id
AppliedRows(id) ==
    { i \in DOMAIN output_file.rows :
          output_file.rows[i][2] = id /\ output_file.rows[i][6] = "Applied" }

\* C23: a job apply_to_job has returned True for in this session is not
\* handed to apply_to_job again, wherever it reappears: the job of a call under
\* way has no 'Applied' row and is not in applied_job_ids (the ids of the calls
\* that returned True) before the call ends, the step that starts a call
\* never picks a job with an 'Applied' row, and the history file of the
\* session holds at most one 'Applied' row for each job id
C23_AppliedOncePerSession ==
    /\ [](pc \in { "apply", "fill", "submit", "submit_ret" } =>
              (AppliedRows(job_id) = {} /\ job_id \notin ToSet(applied_job_ids)))
    /\ [](\A id \in { "j1", "j2" } : Cardinality(AppliedRows(id)) <= 1)
    /\ [][ (pc = "jobs" /\ pc' = "apply") =>
              (job_id' = Head(pending).id /\ AppliedRows(Head(pending).id) = {}) ]_vars

\* a job with an 'Applied' row of this session has reappeared on a later page
\* and was passed over
C23_Witness ==
    /\ pc = "jobs"
    /\ skipped # ""
    /\ AppliedRows(skipped) # {}
    /\ application_count = 1
    /\ page > 0

\* the rows the call of apply_to_job writes in this step
NewRows == { attempt_rows'[i] : i \in (Len(attempt_rows) + 1)..Len(attempt_rows') }

\* C24: every pass of the loop of _submit_application costs one of the 5
\* attempts, whatever it found and did, and nothing gives an attempt back;
\* _submit_application returns True only from a pass, one of the first 5, whose
\* click of submit went through; after 5 passes without one it returns False
\* and apply_to_job hands 'Submission failed' to the recorder and does not
\* return True
C24_BudgetOfFive ==
    /\ [](attempts \in 0..max_attempts)
    /\ [](submit_result = "True" =>
              ("submit" \in trace.done /\ trace.pass \in 1..max_attempts))
    /\ [][ /\ (pc = "submit" /\ attempts < max_attempts) =>
                 (attempts' = attempts + 1 /\ trace'.pass = attempts + 1)
           /\ (pc = "submit" /\ attempts >= max_attempts) =>
                 (pc' = "submit_ret" /\ submit_result' = "False" /\ trace' = trace)
           /\ (pc = "submit_ret" /\ submit_result = "False") =>
                 /\ ret' # "True"
                 /\ \A row \in NewRows :
                       row[5] = "False" /\ row[6] \in { "Submission failed", ErrorResult }
                 /\ \/ \E row \in NewRows : row[6] = "Submission failed"
                    \/ << "history", "Submission failed" >> \in failed_writes'
                    \/ \E row \in NewRows : row[6] = ErrorResult
                    \/ << "history", ErrorResult >> \in failed_writes'
                    \/ ret' \in ExcKinds
         ]_vars

\* five passes, the last one a click of next that went through, and the
\* application is recorded as failed
C24_Witness ==
    /\ pc = "apply_ret"
    /\ ret = "False"
    /\ trace.pass = max_attempts
    /\ "next" \in trace.done
    /\ \E i \in DOMAIN attempt_rows : attempt_rows[i][6] = "Submission failed"

\* the records of store d that _store_new_question has appended since the load
AppendedAtRuntime(d) == { i \in DOMAIN d : i > loaded }

\* the last resolution was of a question whose first matching record of the
\* store is one _store_new_question appended in this session
FirstMatchIsRuntime ==
    /\ last.op = "resolved"
    /\ Matching(last.before, last.question) # {}
    /\ Least(Matching(last.before, last.question)) \in AppendedAtRuntime(last.before)

\* C25: a record _store_new_question has appended in this session, with the
\* answer 'Yes', goes before the rules: a later question that contains its
\* text and matches no earlier record is answered 'Yes' from the store, whatever
\* the rules would answer, and nothing is appended; so it is for the record of
\* an empty section text, which every question contains
C25_RuntimeRecordWins ==
    /\ \A i \in AppendedAtRuntime(answers) : ~answers[i].q.nan /\ answers[i].a = "Yes"
    /\ FirstMatchIsRuntime =>
          /\ last.kind = "answer"
          /\ last.a = "Yes"
          /\ last.via = "store"
          /\ answers = last.before
          /\ qa_file = last.file_before
    /\ (/\ last.op = "resolved"
        /\ \E i \in AppendedAtRuntime(last.before) : last.before[i].q = TextKey(<< >>)
        /\ \A i \in DOMAIN last.before :
              last.before[i].q # TextKey(<< >>) => i \notin Matching(last.before, last.question)) =>
          (last.kind = "answer" /\ last.a = "Yes" /\ last.via = "store")

\* a sponsorship question, which the rules answer 'No', is answered 'Yes' by
\* the record of an empty section text appended earlier in the session
C25_Witness ==
    /\ FirstMatchIsRuntime
    /\ last.before[Least(Matching(last.before, last.question))].q = TextKey(<< >>)
    /\ Has("sponsor", last.question)
    /\ last.a = "Yes"
    /\ last.via = "store"

====
